---- MODULE Spec2Model ----
(***************************************************************************)
(* Model of scripts/load_nifty_candles.py: the one-shot pipeline           *)
(*   fetch_candles() -> load_to_db(df) -> verify() -> report               *)
(* against the replay_candles table, which outlives the process.           *)
(*                                                                         *)
(* Times are minutes.  A provider frame is a time-zone tag plus a sequence *)
(* of rows whose price and volume cells may be NaN.  The database session  *)
(* is psycopg2's default one (autocommit off): the first execute opens a   *)
(* transaction, a statement the server rejects puts the transaction in the *)
(* failed state, every later statement of a failed transaction is rejected *)
(* too, and commit() of a failed transaction rolls it back without raising.*)
(***************************************************************************)
EXTENDS Integers, Sequences, FiniteSets, TLC

\* ---------------------------------------------------------------- bounds
\* Longest provider frame, in rows.
MaxRows == 3
\* Candle times after normalisation range over 1..MaxTime.
MaxTime == 2

\* ------------------------------------------------------------- constants
SYMBOL == "NIFTY50"
\* Rows per commit.  The script uses 500; the model keeps the batching
\* structure (full batches followed by a shorter last one) at a size the
\* bounded frames can fill.
BATCH == 2
\* Offset of Asia/Kolkata from UTC in minutes (no daylight saving).
KOLKATA_OFFSET == 330

\* A symbol other than SYMBOL that the table may also hold.
OtherSymbol == "BANKNIFTY"
\* A missing cell (pandas NaN); real prices and volumes are non-negative.
NaN == -1
\* What fetchone() returns when the query yields no row.
None == <<>>

Times == 1..MaxTime

\* ------------------------------------------------------------ the inputs
\* The local wall-clock reading, under time-zone tag tz, of UTC minute u.
\* "naive" frames carry exchange-local (Kolkata) readings, "utc" frames
\* carry time-zone-aware UTC readings.
LocalReading(u, tz) == IF tz = "utc" THEN u ELSE u + KOLKATA_OFFSET

TzTags == {"naive", "utc"}

\* Price/volume cells of a provider row.
CompleteCells == [open |-> 100, high |-> 110, low |-> 90, close |-> 105, volume |-> NaN]
TradedCells == [open |-> 101, high |-> 111, low |-> 91, close |-> 106, volume |-> 7]
NoOpen  == [CompleteCells EXCEPT !.open = NaN]
NoHigh  == [CompleteCells EXCEPT !.high = NaN]
NoLow   == [CompleteCells EXCEPT !.low = NaN]
NoClose == [CompleteCells EXCEPT !.close = NaN]

RawRow(t, c) ==
    [candle_time |-> t, open |-> c.open, high |-> c.high, low |-> c.low,
     close |-> c.close, volume |-> c.volume]

\* Provider rows of a whole run: complete rows and rows with a gap.
RunCells == {CompleteCells, NoClose}
\* Provider rows for the fetcher alone: a gap in any one price column, and
\* complete rows with and without a volume.
AllCells == {CompleteCells, TradedCells, NoOpen, NoHigh, NoLow, NoClose}

RawRows(tz, cells) == {RawRow(LocalReading(u, tz), c) : u \in Times, c \in cells}

\* ------------------------------------------------------------ fetch_candles
IsNaN(x) == x = NaN

\* A row with a missing price.
HasGap(r) == NaN \in {r.open, r.high, r.low, r.close}

\* Variant: "close" left out of the subset.
DropNaMissingClose(rows) ==
    SelectSeq(rows, LAMBDA r : ~IsNaN(r.open) /\ ~IsNaN(r.high) /\ ~IsNaN(r.low))
\* df.dropna(subset=["open", "high", "low", "close"])
DropNa(rows) ==
    SelectSeq(rows, LAMBDA r : ~IsNaN(r.open) /\ ~IsNaN(r.high)
                               /\ ~IsNaN(r.low) /\ ~IsNaN(r.close))

\* tz_localize("Asia/Kolkata").tz_convert("UTC") for a naive column,
\* tz_convert("UTC") for an aware one; then tz_localize(None).
ToUtcNaive(t, tz) == IF tz = "naive" THEN t - KOLKATA_OFFSET ELSE t

\* df["volume"].fillna(0).astype(int)
VolumeToInt(v) == IF IsNaN(v) THEN 0 ELSE v

Normalize(rows, tz) ==
    [k \in 1..Len(rows) |->
        [rows[k] EXCEPT !.candle_time = ToUtcNaive(@, tz),
                        !.volume = VolumeToInt(@)]]

ReverseSeq(s) == [k \in 1..Len(s) |-> s[Len(s) + 1 - k]]

\* Variant: the frame comes back newest first.
FetchedFrameReversed(rows, tz) == ReverseSeq(Normalize(DropNa(rows), tz))
\* The frame fetch_candles returns for a non-empty provider frame.
FetchedFrame(rows, tz) == Normalize(DropNa(rows), tz)

\* ------------------------------------------------------------ the table
Key(r) == <<r.symbol, r.candle_time>>
Keys(rows) == {Key(r) : r \in rows}

\* The tuple load_to_db binds to the INSERT for one frame row.
InsertRow(d) ==
    [symbol |-> SYMBOL, candle_time |-> d.candle_time, open |-> d.open,
     high |-> d.high, low |-> d.low, close |-> d.close, volume |-> d.volume]

\* Variant: rowcount reports 1 for every statement.
RowCountAlwaysOne(visible, r) == 1
\* Variant: the row is written whether or not its key is present.
UpsertAlways(visible, r) == visible \cup {r}
\* INSERT ... ON CONFLICT (symbol, candle_time) DO NOTHING, on the rows the
\* statement sees; rowcount is 1 when the row went in and 0 otherwise.
RowCount(visible, r) == IF Key(r) \in Keys(visible) THEN 0 ELSE 1
Upsert(visible, r) == IF Key(r) \in Keys(visible) THEN visible ELSE visible \cup {r}

\* Tables the database may hold before the process starts.
EarlierRow == [symbol |-> SYMBOL, candle_time |-> 1, open |-> 99, high |-> 111,
               low |-> 89, close |-> 104, volume |-> 7]
ForeignRow == [EarlierRow EXCEPT !.symbol = OtherSymbol]
InitTables == {{}, {ForeignRow}, {ForeignRow, EarlierRow}}

\* ------------------------------------------------------------ verify
SymbolRows(tbl) == {r \in tbl : r.symbol = SYMBOL}
MinTime(rows) == CHOOSE t \in {r.candle_time : r \in rows} :
                    \A r \in rows : t <= r.candle_time
MaxTimeOf(rows) == CHOOSE t \in {r.candle_time : r \in rows} :
                    \A r \in rows : t >= r.candle_time

\* Variant: the WHERE clause is missing.
VerifyQueryAllSymbols(tbl) ==
    IF tbl = {} THEN None
    ELSE <<SYMBOL, Cardinality(tbl), MinTime(tbl), MaxTimeOf(tbl)>>
\* SELECT symbol, COUNT(*), MIN(candle_time), MAX(candle_time) ... WHERE
\* symbol = %s GROUP BY symbol; fetchone().
VerifyQuery(tbl) ==
    IF SymbolRows(tbl) = {} THEN None
    ELSE <<SYMBOL, Cardinality(SymbolRows(tbl)), MinTime(SymbolRows(tbl)),
           MaxTimeOf(SymbolRows(tbl))>>

\* ------------------------------------------------------------ the state
VARIABLES
    pc,            \* where the process is
    raw,           \* fetch_candles: the provider frame [tz, rows], while in scope
    df,            \* the frame fetch_candles returned
    table,         \* replay_candles: the committed rows
    pending,       \* rows inserted by the connection's open transaction
    tx_failed,     \* whether that transaction is in the failed state
    i,             \* load_to_db: start of the current batch (0-based)
    k,             \* load_to_db: rows of the current batch already attempted
    inserted,      \* load_to_db: its counter
    skipped,       \* load_to_db: its counter
    progress,      \* the progress lines printed, as <<done, total, inserted, skipped>>
    row,           \* what verify() returned
    exit_code,     \* the process's exit status, -1 while it runs
    out,           \* the kinds of message printed so far
    call_no,       \* history: which call of load_to_db on this frame (0 before any)
    table_before,  \* history: the table when the current call of load_to_db began
    outcome,       \* history: what happened to each row attempted by this call
    dbops,         \* history: the database operations of this process
    provided,      \* history: the kind of frame the provider returned
    first_outcome  \* history: outcome of the first call, during a second call

vars == <<pc, raw, df, table, pending, tx_failed, i, k, inserted, skipped,
          progress, row, exit_code, out, call_no, table_before, outcome, dbops,
          provided, first_outcome>>

NoFrame == [tz |-> "naive", rows |-> <<>>]

Init ==
    /\ pc = "start"
    /\ raw = NoFrame
    /\ df = <<>>
    /\ table \in InitTables
    /\ pending = {}
    /\ tx_failed = FALSE
    /\ i = 0
    /\ k = 0
    /\ inserted = 0
    /\ skipped = 0
    /\ progress = <<>>
    /\ row = None
    /\ exit_code = -1
    /\ out = {}
    /\ call_no = 0
    /\ table_before = table
    /\ outcome = <<>>
    /\ dbops = {}
    /\ provided = "nothing"
    /\ first_outcome = <<>>

\* ------------------------------------------------------------ fetch_candles
\* yf.download returned a non-empty frame drawn from `cells`.
FetchCandles(cells) ==
    /\ pc = "start"
    /\ \E tz \in TzTags, n \in 1..MaxRows :
         \E rows \in [1..n -> RawRows(tz, cells)] :
            /\ raw' = [tz |-> tz, rows |-> rows]
            /\ df' = FetchedFrame(rows, tz)
            /\ provided' = IF \E j \in 1..n : HasGap(rows[j])
                           THEN "gaps" ELSE "complete"
    /\ out' = out \cup {"fetching", "fetched"}
    /\ pc' = "fetch_return"
    /\ UNCHANGED <<table, pending, tx_failed, i, k, inserted, skipped,
                   progress, row, exit_code, call_no, table_before, outcome,
                   dbops, first_outcome>>

FetchRun == FetchCandles(RunCells)
FetchAny == FetchCandles(AllCells)

\* Variant: the empty frame is passed on instead of ending the process.
NoDataContinues ==
    /\ df' = <<>>
    /\ out' = out \cup {"fetching", "fetched"}
    /\ pc' = "fetch_return"
    /\ exit_code' = exit_code
\* if df.empty: the message and sys.exit(1).
NoDataExits ==
    /\ df' = df
    /\ out' = out \cup {"fetching", "error_no_data"}
    /\ exit_code' = 1
    /\ pc' = "exit"

\* yf.download returned an empty frame: df.empty, message, sys.exit(1).
FetchNoData ==
    /\ pc = "start"
    /\ raw' = NoFrame
    /\ provided' = "empty"
    /\ NoDataExits
    /\ UNCHANGED <<table, pending, tx_failed, i, k, inserted, skipped,
                   progress, row, call_no, table_before, outcome, dbops,
                   first_outcome>>

\* fetch_candles returns; main calls load_to_db(df).
CallLoad ==
    /\ pc = "fetch_return"
    /\ raw' = NoFrame
    /\ call_no' = 1
    /\ pc' = "load"
    /\ UNCHANGED <<df, table, pending, tx_failed, i, k, inserted, skipped,
                   progress, row, exit_code, out, table_before, outcome,
                   dbops, provided, first_outcome>>

\* ------------------------------------------------------------ load_to_db
\* Variant: the failed connection ends the process with status 0.
LoadConnectFailsStatusZero ==
    /\ pc = "load"
    /\ out' = out \cup {"db_connecting", "error_db_connect"}
    /\ exit_code' = 0
    /\ pc' = "exit"
    /\ dbops' = dbops \cup {"connect_failed"}
    /\ UNCHANGED <<raw, df, table, pending, tx_failed, i, k, inserted,
                   skipped, progress, row, call_no, table_before, outcome,
                   provided, first_outcome>>

\* psycopg2.connect raised: message, sys.exit(1).
LoadConnectFails ==
    /\ pc = "load"
    /\ out' = out \cup {"db_connecting", "error_db_connect"}
    /\ exit_code' = 1
    /\ pc' = "exit"
    /\ dbops' = dbops \cup {"connect_failed"}
    /\ UNCHANGED <<raw, df, table, pending, tx_failed, i, k, inserted,
                   skipped, progress, row, call_no, table_before, outcome,
                   provided, first_outcome>>

\* psycopg2.connect succeeded; cursor, counters, rows = list(df.itertuples()).
LoadConnect ==
    /\ pc = "load"
    /\ out' = out \cup {"db_connecting"}
    /\ dbops' = dbops \cup {"connect"}
    /\ i' = 0 /\ k' = 0 /\ inserted' = 0 /\ skipped' = 0
    /\ pending' = {} /\ tx_failed' = FALSE
    /\ table_before' = table
    /\ outcome' = <<>>
    /\ pc' = "loop"
    /\ UNCHANGED <<raw, df, table, progress, row, exit_code, call_no,
                   provided, first_outcome>>

Min(a, b) == IF a < b THEN a ELSE b

\* len(rows[i : i + BATCH])
BatchLen == Min(BATCH, Len(df) - i)

\* How one cur.execute of the INSERT can end.  "client": the driver raises
\* before the statement reaches the server.  "server": the server rejects
\* the statement.  "none": nothing goes wrong with this statement itself.
Faults == {"none", "client", "server"}

\* One iteration of the inner loop: the INSERT of rows[i + k] and the
\* counting of its result, inside try/except.
ExecuteInsert ==
    /\ pc = "loop"
    /\ i < Len(df)
    /\ k < BatchLen
    /\ LET r == InsertRow(df[i + k + 1])
           visible == table \cup pending
       IN \E fault \in Faults :
            /\ dbops' = dbops \cup {"insert"}
            /\ k' = k + 1
            /\ IF fault = "client"
               THEN /\ skipped' = skipped + 1
                    /\ out' = out \cup {"warn_skipped_row"}
                    /\ outcome' = Append(outcome, "client_error")
                    /\ UNCHANGED <<pending, tx_failed, inserted>>
               ELSE IF tx_failed
               THEN /\ skipped' = skipped + 1
                    /\ out' = out \cup {"warn_skipped_row"}
                    /\ outcome' = Append(outcome, "rejected_failed_tx")
                    /\ UNCHANGED <<pending, tx_failed, inserted>>
               ELSE IF fault = "server"
               THEN /\ tx_failed' = TRUE
                    /\ skipped' = skipped + 1
                    /\ out' = out \cup {"warn_skipped_row"}
                    /\ outcome' = Append(outcome, "server_error")
                    /\ UNCHANGED <<pending, inserted>>
               ELSE /\ pending' = Upsert(visible, r) \ table
                    /\ IF RowCount(visible, r) > 0
                       THEN /\ inserted' = inserted + 1
                            /\ skipped' = skipped
                            /\ outcome' = Append(outcome, "inserted")
                       ELSE /\ inserted' = inserted
                            /\ skipped' = skipped + 1
                            /\ outcome' = Append(outcome, "conflict")
                    /\ UNCHANGED <<tx_failed, out>>
    /\ UNCHANGED <<pc, raw, df, table, i, progress, row, exit_code, call_no,
                   table_before, provided, first_outcome>>

\* conn.commit(): a failed transaction is rolled back, any other is made
\* durable.
Committed(tbl, pend, failed) == IF failed THEN tbl ELSE tbl \cup pend

\* End of a batch: conn.commit() and the progress line.
CommitBatch ==
    /\ pc = "loop"
    /\ i < Len(df)
    /\ k = BatchLen
    /\ table' = Committed(table, pending, tx_failed)
    /\ pending' = {}
    /\ tx_failed' = FALSE
    /\ progress' = Append(progress,
                          <<Min(i + BATCH, Len(df)), Len(df), inserted, skipped>>)
    /\ out' = out \cup {"progress"}
    /\ dbops' = dbops \cup {"commit"}
    /\ i' = i + BATCH
    /\ k' = 0
    /\ UNCHANGED <<pc, raw, df, inserted, skipped, row, exit_code, call_no,
                   table_before, outcome, provided, first_outcome>>

\* The outer loop is exhausted: cur.close(), conn.close(), return.
LoadReturn ==
    /\ pc = "loop"
    /\ i >= Len(df)
    /\ pc' = "loaded"
    /\ UNCHANGED <<raw, df, table, pending, tx_failed, i, k, inserted,
                   skipped, progress, row, exit_code, out, call_no,
                   table_before, outcome, dbops, provided, first_outcome>>

\* The loader is run a second time on the same fetched frame.
LoadAgain ==
    /\ pc = "loaded"
    /\ call_no = 1
    /\ call_no' = 2
    /\ first_outcome' = outcome
    /\ progress' = <<>>
    /\ pc' = "load"
    /\ UNCHANGED <<raw, df, table, pending, tx_failed, i, k, inserted,
                   skipped, row, exit_code, out, table_before, outcome, dbops,
                   provided>>

\* ------------------------------------------------------------ verify, report
\* verify(): connect, the aggregate query, fetchone, close.
Verify ==
    /\ pc = "loaded"
    /\ row' = VerifyQuery(table)
    /\ dbops' = dbops \cup {"verify_connect", "verify_query"}
    /\ pc' = "verified"
    /\ UNCHANGED <<raw, df, table, pending, tx_failed, i, k, inserted,
                   skipped, progress, exit_code, out, call_no, table_before,
                   outcome, provided, first_outcome>>

\* verify(): psycopg2.connect raised; nothing catches it, the interpreter
\* prints the traceback and exits with status 1.
VerifyConnectFails ==
    /\ pc = "loaded"
    /\ out' = out \cup {"traceback_db_connect"}
    /\ dbops' = dbops \cup {"verify_connect_failed"}
    /\ exit_code' = 1
    /\ pc' = "exit"
    /\ UNCHANGED <<raw, df, table, pending, tx_failed, i, k, inserted,
                   skipped, progress, row, call_no, table_before, outcome,
                   provided, first_outcome>>

\* main prints the summary and falls off the end of the script.
Report ==
    /\ pc = "verified"
    /\ out' = out \cup (IF row # None THEN {"summary"} ELSE {}) \cup {"counts"}
    /\ exit_code' = 0
    /\ pc' = "exit"
    /\ UNCHANGED <<raw, df, table, pending, tx_failed, i, k, inserted,
                   skipped, progress, row, call_no, table_before, outcome,
                   dbops, provided, first_outcome>>

\* The script is started again, against the table the last process left.
Restart ==
    /\ pc = "exit"
    /\ pc' = "start"
    /\ raw' = NoFrame
    /\ df' = <<>>
    /\ pending' = {}
    /\ tx_failed' = FALSE
    /\ i' = 0 /\ k' = 0 /\ inserted' = 0 /\ skipped' = 0
    /\ progress' = <<>>
    /\ row' = None
    /\ exit_code' = -1
    /\ out' = {}
    /\ call_no' = 0
    /\ table_before' = table
    /\ outcome' = <<>>
    /\ dbops' = {}
    /\ provided' = "nothing"
    /\ first_outcome' = <<>>
    /\ UNCHANGED table

\* ------------------------------------------------------------ specifications
Next ==
    \/ FetchRun
    \/ FetchNoData
    \/ CallLoad
    \/ LoadConnect
    \/ LoadConnectFails
    \/ ExecuteInsert
    \/ CommitBatch
    \/ LoadReturn
    \/ Verify
    \/ VerifyConnectFails
    \/ Report
    \/ Restart

\* Whole runs of the script, one after another.
Spec == Init /\ [][Next]_vars

NextTwice ==
    \/ Next
    \/ LoadAgain

\* Whole runs in which the loader may be called a second time on the frame
\* it has just loaded.
SpecTwice == Init /\ [][NextTwice]_vars

NextFetch ==
    \/ FetchAny
    \/ FetchNoData
    \/ Restart

\* fetch_candles alone, on provider frames with a gap in any price column.
SpecFetch == Init /\ [][NextFetch]_vars

\* ------------------------------------------------------------ properties
Attempted == 1..Len(outcome)
\* Errors a row's insert raises: on its own account, or because an earlier
\* statement failed the transaction.
OwnErrors == {"client_error", "server_error"}
ErrorOutcomes == OwnErrors \cup {"rejected_failed_tx"}
NoInsertError == \A n \in Attempted : outcome[n] \notin ErrorOutcomes
FrameKeys == {Key(InsertRow(df[n])) : n \in 1..Len(df)}
Complete(r) == r.open # NaN /\ r.high # NaN /\ r.low # NaN /\ r.close # NaN

\* The rows whose own insert fails, and how, are the same in the second
\* call as in the first.
SameFailures ==
    /\ Len(first_outcome) = Len(outcome)
    /\ \A n \in Attempted :
          (outcome[n] \in OwnErrors \/ first_outcome[n] \in OwnErrors)
              => outcome[n] = first_outcome[n]

\* C1: a second call of load_to_db on the same frame returns inserted = 0
\* and leaves the table as the first call left it.  "The same" is read in
\* the claim's favour: the same rows fail, in the same way, in both calls.
C1_SecondRunInsertsNothing ==
    (pc = "loaded" /\ call_no = 2 /\ SameFailures)
        => (inserted = 0 /\ table = table_before)

\* C2: no two rows, committed or written by the open transaction, share a
\* (symbol, candle_time) key, and every row the table held when load_to_db
\* began is still in it, unchanged, whatever was written on its key.
C2_KeyUniqueWritesKeepRows ==
    /\ \A r1, r2 \in table \cup pending : Key(r1) = Key(r2) => r1 = r2
    /\ table_before \subseteq table

\* C2 witness: a completed load wrote different prices on a key the table
\* already held, and wrote a key twice within one frame.
C2_Witness ==
    /\ pc = "loaded"
    /\ \E n \in Attempted :
          /\ outcome[n] = "conflict"
          /\ Key(InsertRow(df[n])) \in Keys(table_before)
          /\ InsertRow(df[n]) \notin table
    /\ \E m, n \in Attempted :
          /\ m < n
          /\ df[m].candle_time = df[n].candle_time
          /\ outcome[m] = "inserted"
          /\ outcome[n] = "conflict"

\* C3: every row of the frame handed to load_to_db, and every row of the
\* table or of the open transaction, has all four prices present.
C3_NoGapPersisted ==
    /\ \A n \in 1..Len(df) : Complete(df[n])
    /\ \A r \in table \cup pending : Complete(r)

\* C3 witness: the provider frame had a row with a missing price and the
\* run inserted and committed rows.
C3_Witness ==
    /\ provided = "gaps"
    /\ pc = "loaded"
    /\ inserted > 0
    /\ table # table_before

\* C4: on an empty provider frame the process is at its exit with status 1
\* and the no-data message, has performed no database operation, and the
\* table is the one the process started with.
C4_EmptyFetchExitsBeforeDb ==
    provided = "empty" =>
        /\ pc = "exit"
        /\ exit_code = 1
        /\ "error_no_data" \in out
        /\ dbops = {}
        /\ table = table_before
        /\ pending = {}

\* C4 witness: an empty provider frame against a table that holds rows.
C4_Witness == provided = "empty" /\ pc = "exit" /\ table # {}

\* C5: when no insert of the call raised, inserted is the number of distinct
\* frame keys the table did not hold when the call began (the rows whose key
\* was absent when attempted), skipped counts the others, inserted + skipped
\* is the number of frame rows, and every progress line shows inserted +
\* skipped equal to the rows processed so far.
C5_CountsWithoutErrors ==
    NoInsertError =>
        /\ \A n \in 1..Len(progress) :
              /\ progress[n][1] = progress[n][3] + progress[n][4]
              /\ progress[n][1] = Min(n * BATCH, Len(df))
        /\ pc = "loaded" =>
              /\ inserted = Cardinality(FrameKeys \ Keys(table_before))
              /\ skipped = Len(df) - inserted
              /\ inserted + skipped = Len(df)

\* C5 witness: an error-free call over two batches that inserted some rows
\* and skipped others.
C5_Witness ==
    /\ pc = "loaded"
    /\ NoInsertError
    /\ Len(progress) = 2
    /\ inserted > 0
    /\ skipped > 0

\* C6: after a call in which an insert raised, every frame row was attempted
\* and counted once, and every row whose own insert did not fail is in the
\* table.
C6_RowErrorIsNonFatal ==
    pc = "loaded" =>
        /\ Len(outcome) = Len(df)
        /\ inserted + skipped = Len(df)
        /\ \A n \in Attempted :
              outcome[n] \notin OwnErrors
                  => Key(InsertRow(df[n])) \in Keys(table)

Diagnostics == {"error_no_data", "error_db_connect", "traceback_db_connect"}

Ascending(rows) ==
    \A a, b \in 1..Len(rows) :
        a < b => rows[a].candle_time <= rows[b].candle_time
\* Positions of the provider rows with all four prices.
CompleteIdx == {m \in 1..Len(raw.rows) : Complete(raw.rows[m])}

\* C8: the frame fetch_candles returns is ascending by candle_time and holds
\* as many rows as the provider frame has rows with all four prices.
C8_FetchedAscending ==
    pc = "fetch_return" =>
        /\ Ascending(df)
        /\ Len(df) = Cardinality(CompleteIdx)

\* C8 amended: the returned frame holds exactly the provider rows with all
\* four prices, in the provider's order, each at the UTC minute of its
\* reading; so it is ascending whenever the provider frame is.
C8_FetchedInProviderOrder ==
    pc = "fetch_return" =>
        /\ Len(df) = Cardinality(CompleteIdx)
        /\ \A n \in 1..Len(df) :
              \E m \in CompleteIdx :
                 /\ Cardinality({x \in CompleteIdx : x <= m}) = n
                 /\ LocalReading(df[n].candle_time, raw.tz) = raw.rows[m].candle_time
                 /\ <<df[n].open, df[n].high, df[n].low, df[n].close>>
                      = <<raw.rows[m].open, raw.rows[m].high, raw.rows[m].low,
                          raw.rows[m].close>>
                 /\ df[n].volume = IF raw.rows[m].volume = NaN
                                   THEN 0 ELSE raw.rows[m].volume
        /\ Ascending(raw.rows) => Ascending(df)

\* C8 witness: an ascending provider frame with a gap row between complete
\* rows of different times.
C8_Witness ==
    /\ pc = "fetch_return"
    /\ Ascending(raw.rows)
    /\ Len(raw.rows) > Len(df)
    /\ Len(df) >= 2
    /\ df[1].candle_time < df[Len(df)].candle_time

\* ans is the answer the verifier owes for table tbl.
VerifyAnswer(tbl, ans) ==
    LET mine == {r \in tbl : r.symbol = SYMBOL}
    IN IF mine = {} THEN ans = None
       ELSE /\ Len(ans) = 4
            /\ ans[1] = SYMBOL
            /\ ans[2] = Cardinality(mine)
            /\ \E r \in mine : r.candle_time = ans[3]
            /\ \E r \in mine : r.candle_time = ans[4]
            /\ \A r \in mine : ans[3] <= r.candle_time /\ r.candle_time <= ans[4]

\* C9: verify returns nothing when the table holds no row of the symbol and
\* otherwise the symbol, the number of its rows and their least and greatest
\* candle_time; it leaves the table as it was.
C9_VerifyResult ==
    [][(pc = "loaded" /\ pc' = "verified")
          => (table' = table /\ VerifyAnswer(table, row'))]_vars

\* C9 witness: verify answered on a table that holds rows of the symbol at
\* different times and a row of another symbol.
C9_Witness ==
    /\ pc = "verified"
    /\ row # None
    /\ row[3] < row[4]
    /\ \E r \in table : r.symbol # SYMBOL

\* C10: the inserted count a call returns is the number of rows the table
\* gained during the call.
C10_InsertedMatchesTable ==
    pc = "loaded" => inserted = Cardinality(table) - Cardinality(table_before)

====
